---- MODULE Spec2Model ----
(***************************************************************************)
(* Model of assets/scripts/generate-steering-demo.py: main() and           *)
(* generate_steering_demo_image().  One run of the script is a sequential  *)
(* process whose position is pc.  The environment (files left by an        *)
(* earlier run, whether vhs is on PATH, whether Pillow is importable,      *)
(* which font files load, whether pip / vhs / the disk write succeed) is   *)
(* chosen nondeterministically.                                            *)
(***************************************************************************)
EXTENDS Integers, Sequences, FiniteSets

VARIABLES
    pc,             \* position of the run in the script
    gif,            \* steering-demo.gif in the working directory
    png,            \* steering-demo.png next to the script
    pilInstalled,   \* whether `from PIL import ...` would succeed now
    cmds,           \* os.system() commands spawned so far, in order
    imports,        \* outcome of each `from PIL import` executed so far
    vhs_available,  \* main(): result of the availability check
    rendererCalled, \* generate_steering_demo_image() has been entered
    rendererReturned, \* generate_steering_demo_image() returned normally
    img,            \* the canvas (Image.new), or NoImg
    font_i,         \* index of font_name in the for loop
    loads,          \* every ImageFont.truetype call so far: candidate, size, ok
    title_font, text_font, small_font,
    y,              \* the vertical cursor
    ip,             \* index of the next statement of the drawing body
    trace,          \* every drawing statement executed so far
    written,        \* files written by this run
    crashedAt,      \* where an unhandled exception was raised, or "none"
    exitCode        \* process exit status, NoExit while running

vars == << pc, gif, png, pilInstalled, cmds, imports, vhs_available,
           rendererCalled, rendererReturned, img, font_i, loads,
           title_font, text_font, small_font, y, ip, trace, written,
           crashedAt, exitCode >>

----------------------------------------------------------------------------
(* Program constants *)

width == 1280
height == 720

FontNames == << "DejaVuSansMono.ttf", "Courier New", "Monospace" >>

TitleSize == 24
TextSize == 16
SmallSize == 14

YStart == 40

NoExit == -1
NoImg == [w |-> 0, h |-> 0]
Unset == [src |-> "unset", size |-> 0]

\* ImageFont.load_default(): the library's built-in font
load_default == [src |-> "default", size |-> 0]

\* ImageFont.truetype(path of name, size) when the file loads
truetype(name, size) == [src |-> name, size |-> size]

NoFile == [exists |-> FALSE, nonempty |-> FALSE, w |-> 0, h |-> 0]

\* files an earlier run (of this or another version) may have left behind
StalePngs == { [exists |-> TRUE, nonempty |-> TRUE, w |-> 640, h |-> 360],
               [exists |-> TRUE, nonempty |-> FALSE, w |-> 0, h |-> 0] }

\* Path.exists()
Exists(f) == f.exists

----------------------------------------------------------------------------
(* The drawing body, lines 59-111, statement by statement.  dy is the      *)
(* offset from the cursor y at which the call anchors its text.            *)

Text(x, dy, font) == [kind |-> "text", x |-> x, x2 |-> x, dy |-> dy, n |-> 0, font |-> font]
Line(x, x2, dy) == [kind |-> "line", x |-> x, x2 |-> x2, dy |-> dy, n |-> 0, font |-> "none"]
Adv(n) == [kind |-> "adv", x |-> 0, x2 |-> 0, dy |-> 0, n |-> n, font |-> "none"]

\* Body with the increment after the "Agent proposes" block overshooting
BodyDrift ==
    << Text(40, 0, "title"), Adv(50),
       Line(40, 1240, 0), Adv(30),
       Text(40, 0, "text"), Adv(40),
       Text(40, 0, "text"), Adv(30),
       Text(60, 0, "text"), Adv(35),
       Text(40, 0, "text"), Adv(30),
       Text(60, 0, "text"),
       Text(60, 25, "small"), Adv(160),
       Text(40, 0, "text"), Adv(30),
       Text(60, 0, "text"),
       Text(200, 0, "text"),
       Text(320, 0, "text"),
       Text(520, 0, "text"), Adv(35),
       Text(60, 0, "text"), Adv(40),
       Text(40, 0, "text"), Adv(30),
       Text(60, 0, "small"), Adv(25),
       Text(60, 0, "small"), Adv(40),
       Text(40, 0, "text"), Adv(30),
       Text(60, 0, "small"), Adv(25),
       Text(60, 0, "small"), Adv(25),
       Text(60, 0, "small") >>

Body ==
    << Text(40, 0, "title"), Adv(50),          \* 59-61  title
       Line(40, 1240, 0), Adv(30),             \* 64-65  separator
       Text(40, 0, "text"), Adv(40),           \* 68-70  scenario
       Text(40, 0, "text"), Adv(30),           \* 73-74  step 1
       Text(60, 0, "text"), Adv(35),           \* 75-76
       Text(40, 0, "text"), Adv(30),           \* 79-80  step 2
       Text(60, 0, "text"),                    \* 81
       Text(60, 25, "small"), Adv(60),         \* 82-83  drawn at y + 25
       Text(40, 0, "text"), Adv(30),           \* 86-87  step 3
       Text(60, 0, "text"),                    \* 88     menu row
       Text(200, 0, "text"),                   \* 89
       Text(320, 0, "text"),                   \* 90
       Text(520, 0, "text"), Adv(35),          \* 91-92
       Text(60, 0, "text"), Adv(40),           \* 93-94
       Text(40, 0, "text"), Adv(30),           \* 97-98  step 4
       Text(60, 0, "small"), Adv(25),          \* 99-100
       Text(60, 0, "small"), Adv(40),          \* 101-102
       Text(40, 0, "text"), Adv(30),           \* 105-106 step 5
       Text(60, 0, "small"), Adv(25),          \* 107-108
       Text(60, 0, "small"), Adv(25),          \* 109-110
       Text(60, 0, "small") >>                 \* 111

\* footer_y = height - 40
footer_y == height - 40

\* the font object a drawing call receives
FontOf(f) ==
    CASE f = "title" -> title_font
      [] f = "text" -> text_font
      [] f = "small" -> small_font
      [] OTHER -> Unset

Drawn(kind, x, x2, yy, f, part) ==
    [kind |-> kind, x |-> x, x2 |-> x2, y |-> yy, cur |-> y, n |-> 0,
     font |-> FontOf(f), part |-> part]

Advanced(n) ==
    [kind |-> "adv", x |-> 0, x2 |-> 0, y |-> y + n, cur |-> y, n |-> n,
     font |-> Unset, part |-> "body"]

----------------------------------------------------------------------------
Init ==
    /\ pc = "start"
    /\ gif \in {"absent", "stale"}
    /\ png \in {NoFile} \cup StalePngs
    /\ pilInstalled \in BOOLEAN
    /\ cmds = << >>
    /\ imports = << >>
    /\ vhs_available = FALSE
    /\ rendererCalled = FALSE
    /\ rendererReturned = FALSE
    /\ img = NoImg
    /\ font_i = 0
    /\ loads = << >>
    /\ title_font = Unset
    /\ text_font = Unset
    /\ small_font = Unset
    /\ y = 0
    /\ ip = 0
    /\ trace = << >>
    /\ written = {}
    /\ crashedAt = "none"
    /\ exitCode = NoExit

----------------------------------------------------------------------------
(* main() *)

\* the tool is invoked whatever the availability check returned
MainCheckVhsIgnored ==
    /\ pc = "start"
    /\ \E found \in BOOLEAN :
        /\ vhs_available' = found
        /\ pc' = "vhs"
    /\ cmds' = Append(cmds, "which")
    /\ UNCHANGED << gif, png, pilInstalled, imports, rendererCalled,
                    rendererReturned, img, font_i, loads, title_font,
                    text_font, small_font, y, ip, trace, written,
                    crashedAt, exitCode >>

\* line 131: vhs_available = os.system("which vhs ...") == 0; line 133
MainCheckVhs ==
    /\ pc = "start"
    /\ \E found \in BOOLEAN :
        /\ vhs_available' = found
        /\ pc' = IF found THEN "vhs" ELSE "fallback"
    /\ cmds' = Append(cmds, "which")
    /\ UNCHANGED << gif, png, pilInstalled, imports, rendererCalled,
                    rendererReturned, img, font_i, loads, title_font,
                    text_font, small_font, y, ip, trace, written,
                    crashedAt, exitCode >>

\* line 136: os.system("vhs < steering-demo.tape"), result discarded
MainInvokeVhs ==
    /\ pc = "vhs"
    /\ cmds' = Append(cmds, "vhs")
    /\ \E produced \in BOOLEAN :
        /\ gif' = IF produced THEN "fresh" ELSE gif
        /\ written' = IF produced THEN written \cup {"gif"} ELSE written
    /\ pc' = "gifcheck"
    /\ UNCHANGED << png, pilInstalled, imports, vhs_available,
                    rendererCalled, rendererReturned, img, font_i, loads,
                    title_font, text_font, small_font, y, ip, trace,
                    crashedAt, exitCode >>

\* the tool path returns 0 without looking at the output file
MainCheckGifAlwaysOk ==
    /\ pc = "gifcheck"
    /\ pc' = "done"
    /\ exitCode' = 0
    /\ UNCHANGED << gif, png, pilInstalled, cmds, imports, vhs_available,
                    rendererCalled, rendererReturned, img, font_i, loads,
                    title_font, text_font, small_font, y, ip, trace,
                    written, crashedAt >>

\* the tool path reports failure when the output file is missing
MainCheckGifFails ==
    /\ pc = "gifcheck"
    /\ pc' = "done"
    /\ exitCode' = IF gif # "absent" THEN 0 ELSE 1
    /\ UNCHANGED << gif, png, pilInstalled, cmds, imports, vhs_available,
                    rendererCalled, rendererReturned, img, font_i, loads,
                    title_font, text_font, small_font, y, ip, trace,
                    written, crashedAt >>

\* lines 137-141: if output.exists(): ... return 0; otherwise fall through
MainCheckGif ==
    /\ pc = "gifcheck"
    /\ IF gif # "absent"
         THEN pc' = "done" /\ exitCode' = 0
         ELSE pc' = "fallback" /\ exitCode' = exitCode
    /\ UNCHANGED << gif, png, pilInstalled, cmds, imports, vhs_available,
                    rendererCalled, rendererReturned, img, font_i, loads,
                    title_font, text_font, small_font, y, ip, trace,
                    written, crashedAt >>

\* lines 143-147: output = generate_steering_demo_image()
MainCallRenderer ==
    /\ pc = "fallback"
    /\ rendererCalled' = TRUE
    /\ pc' = "import"
    /\ UNCHANGED << gif, png, pilInstalled, cmds, imports, vhs_available,
                    rendererReturned, img, font_i, loads, title_font,
                    text_font, small_font, y, ip, trace, written,
                    crashedAt, exitCode >>

\* lines 149-166: if output.exists(): ... return 0 else: ... return 1
MainCheckPng ==
    /\ pc = "pngcheck"
    /\ exitCode' = IF Exists(png) THEN 0 ELSE 1
    /\ pc' = "done"
    /\ UNCHANGED << gif, png, pilInstalled, cmds, imports, vhs_available,
                    rendererCalled, rendererReturned, img, font_i, loads,
                    title_font, text_font, small_font, y, ip, trace,
                    written, crashedAt >>

----------------------------------------------------------------------------
(* generate_steering_demo_image(): the imaging library *)

\* an uncaught exception: the interpreter prints a traceback and exits 1
Raise(where) ==
    /\ pc' = "crashed"
    /\ crashedAt' = where
    /\ exitCode' = 1

\* lines 14-16: try: from PIL import ...; except ImportError: install
ImportPIL ==
    /\ pc = "import"
    /\ imports' = Append(imports, pilInstalled)
    /\ pc' = IF pilInstalled THEN "newimg" ELSE "install"
    /\ UNCHANGED << gif, png, pilInstalled, cmds, vhs_available,
                    rendererCalled, rendererReturned, img, font_i, loads,
                    title_font, text_font, small_font, y, ip, trace,
                    written, crashedAt, exitCode >>

\* lines 17-18: os.system("pip install pillow -q"), result discarded
InstallPillow ==
    /\ pc = "install"
    /\ cmds' = Append(cmds, "pip")
    /\ \E ok \in BOOLEAN : pilInstalled' = ok
    /\ pc' = "reimport"
    /\ UNCHANGED << gif, png, imports, vhs_available, rendererCalled,
                    rendererReturned, img, font_i, loads, title_font,
                    text_font, small_font, y, ip, trace, written,
                    crashedAt, exitCode >>

\* a failed second import sends the run back to the install command
ReimportPILRetry ==
    /\ pc = "reimport"
    /\ imports' = Append(imports, pilInstalled)
    /\ IF pilInstalled \/ Len(imports) < 2
         THEN /\ pc' = IF pilInstalled THEN "newimg" ELSE "install"
              /\ UNCHANGED << crashedAt, exitCode >>
         ELSE Raise("import")
    /\ UNCHANGED << gif, png, pilInstalled, cmds, vhs_available,
                    rendererCalled, rendererReturned, img, font_i, loads,
                    title_font, text_font, small_font, y, ip, trace,
                    written >>

\* line 19: from PIL import ..., outside any try
ReimportPIL ==
    /\ pc = "reimport"
    /\ imports' = Append(imports, pilInstalled)
    /\ IF pilInstalled
         THEN pc' = "newimg" /\ UNCHANGED << crashedAt, exitCode >>
         ELSE Raise("import")
    /\ UNCHANGED << gif, png, pilInstalled, cmds, vhs_available,
                    rendererCalled, rendererReturned, img, font_i, loads,
                    title_font, text_font, small_font, y, ip, trace,
                    written >>

\* the canvas is created with width and height swapped
ImageNewSwapped ==
    /\ pc = "newimg"
    /\ img' = [w |-> height, h |-> width]
    /\ font_i' = 1
    /\ pc' = "font_title"
    /\ UNCHANGED << gif, png, pilInstalled, cmds, imports, vhs_available,
                    rendererCalled, rendererReturned, loads, title_font,
                    text_font, small_font, y, ip, trace, written,
                    crashedAt, exitCode >>

\* lines 22-33: img = Image.new('RGB', (width, height), bg_color);
\* line 38: the for loop starts at the first candidate
ImageNew ==
    /\ pc = "newimg"
    /\ img' = [w |-> width, h |-> height]
    /\ font_i' = 1
    /\ pc' = "font_title"
    /\ UNCHANGED << gif, png, pilInstalled, cmds, imports, vhs_available,
                    rendererCalled, rendererReturned, loads, title_font,
                    text_font, small_font, y, ip, trace, written,
                    crashedAt, exitCode >>

----------------------------------------------------------------------------
(* generate_steering_demo_image(): font resolution, lines 36-54.           *)
(* ImageFont.load_default() always returns the built-in font, so the outer *)
(* except clause (lines 51-54), which would assign the same three default  *)
(* fonts, is never entered.                                                *)

Loaded(size, ok) == [cand |-> font_i, size |-> size, ok |-> ok]

\* lines 44-46: except: continue; the for loop's else clause when exhausted
FontContinue ==
    IF font_i < Len(FontNames)
      THEN font_i' = font_i + 1 /\ pc' = "font_title"
      ELSE font_i' = font_i /\ pc' = "font_else"

\* line 40
LoadTitle ==
    /\ pc = "font_title"
    /\ \E ok \in BOOLEAN :
        /\ loads' = Append(loads, Loaded(TitleSize, ok))
        /\ IF ok
             THEN /\ title_font' = truetype(FontNames[font_i], TitleSize)
                  /\ pc' = "font_text"
                  /\ font_i' = font_i
             ELSE /\ title_font' = title_font
                  /\ FontContinue
    /\ UNCHANGED << gif, png, pilInstalled, cmds, imports, vhs_available,
                    rendererCalled, rendererReturned, img, text_font,
                    small_font, y, ip, trace, written, crashedAt,
                    exitCode >>

\* line 41
LoadText ==
    /\ pc = "font_text"
    /\ \E ok \in BOOLEAN :
        /\ loads' = Append(loads, Loaded(TextSize, ok))
        /\ IF ok
             THEN /\ text_font' = truetype(FontNames[font_i], TextSize)
                  /\ pc' = "font_small"
                  /\ font_i' = font_i
             ELSE /\ text_font' = text_font
                  /\ FontContinue
    /\ UNCHANGED << gif, png, pilInstalled, cmds, imports, vhs_available,
                    rendererCalled, rendererReturned, img, title_font,
                    small_font, y, ip, trace, written, crashedAt,
                    exitCode >>

\* the loop goes on to the next candidate after a full match
LoadSmallNoBreak ==
    /\ pc = "font_small"
    /\ \E ok \in BOOLEAN :
        /\ loads' = Append(loads, Loaded(SmallSize, ok))
        /\ small_font' = IF ok THEN truetype(FontNames[font_i], SmallSize)
                               ELSE small_font
        /\ FontContinue
    /\ UNCHANGED << gif, png, pilInstalled, cmds, imports, vhs_available,
                    rendererCalled, rendererReturned, img, title_font,
                    text_font, y, ip, trace, written, crashedAt, exitCode >>

\* lines 42-43: the third load, then break
LoadSmall ==
    /\ pc = "font_small"
    /\ \E ok \in BOOLEAN :
        /\ loads' = Append(loads, Loaded(SmallSize, ok))
        /\ IF ok
             THEN /\ small_font' = truetype(FontNames[font_i], SmallSize)
                  /\ pc' = "cursor"
                  /\ font_i' = font_i
             ELSE /\ small_font' = small_font
                  /\ FontContinue
    /\ UNCHANGED << gif, png, pilInstalled, cmds, imports, vhs_available,
                    rendererCalled, rendererReturned, img, title_font,
                    text_font, y, ip, trace, written, crashedAt, exitCode >>

\* the else clause fills in only the fonts no candidate has assigned
FontFallbackMissingOnly ==
    /\ pc = "font_else"
    /\ title_font' = IF title_font = Unset THEN load_default ELSE title_font
    /\ text_font' = IF text_font = Unset THEN load_default ELSE text_font
    /\ small_font' = IF small_font = Unset THEN load_default ELSE small_font
    /\ pc' = "cursor"
    /\ UNCHANGED << gif, png, pilInstalled, cmds, imports, vhs_available,
                    rendererCalled, rendererReturned, img, font_i, loads,
                    y, ip, trace, written, crashedAt, exitCode >>

\* lines 46-50: for ... else: all three fonts are the default font
FontFallback ==
    /\ pc = "font_else"
    /\ title_font' = load_default
    /\ text_font' = load_default
    /\ small_font' = load_default
    /\ pc' = "cursor"
    /\ UNCHANGED << gif, png, pilInstalled, cmds, imports, vhs_available,
                    rendererCalled, rendererReturned, img, font_i, loads,
                    y, ip, trace, written, crashedAt, exitCode >>

----------------------------------------------------------------------------
(* generate_steering_demo_image(): layout, lines 56-117 *)

\* line 56: y = 40
CursorInit ==
    /\ pc = "cursor"
    /\ y' = YStart
    /\ ip' = 1
    /\ pc' = "draw"
    /\ UNCHANGED << gif, png, pilInstalled, cmds, imports, vhs_available,
                    rendererCalled, rendererReturned, img, font_i, loads,
                    title_font, text_font, small_font, trace, written,
                    crashedAt, exitCode >>

NextIp ==
    /\ ip' = ip + 1
    /\ pc' = IF ip < Len(Body) THEN "draw" ELSE "footer_line"

\* draw.text((x, y + dy), ..., font=...)
DrawText ==
    /\ pc = "draw"
    /\ Body[ip].kind = "text"
    /\ trace' = Append(trace, Drawn("text", Body[ip].x, Body[ip].x2,
                                    y + Body[ip].dy, Body[ip].font, "body"))
    /\ NextIp
    /\ UNCHANGED << gif, png, pilInstalled, cmds, imports, vhs_available,
                    rendererCalled, rendererReturned, img, font_i, loads,
                    title_font, text_font, small_font, y, written,
                    crashedAt, exitCode >>

\* draw.line([(x, y), (x2, y)], ...)
DrawLine ==
    /\ pc = "draw"
    /\ Body[ip].kind = "line"
    /\ trace' = Append(trace, Drawn("line", Body[ip].x, Body[ip].x2,
                                    y + Body[ip].dy, Body[ip].font, "body"))
    /\ NextIp
    /\ UNCHANGED << gif, png, pilInstalled, cmds, imports, vhs_available,
                    rendererCalled, rendererReturned, img, font_i, loads,
                    title_font, text_font, small_font, y, written,
                    crashedAt, exitCode >>

\* y += n
AdvanceY ==
    /\ pc = "draw"
    /\ Body[ip].kind = "adv"
    /\ y' = y + Body[ip].n
    /\ trace' = Append(trace, Advanced(Body[ip].n))
    /\ NextIp
    /\ UNCHANGED << gif, png, pilInstalled, cmds, imports, vhs_available,
                    rendererCalled, rendererReturned, img, font_i, loads,
                    title_font, text_font, small_font, written, crashedAt,
                    exitCode >>

\* lines 114-115: the footer separator at footer_y - 10
FooterLine ==
    /\ pc = "footer_line"
    /\ trace' = Append(trace, Drawn("line", 40, 1240, footer_y - 10,
                                    "none", "footer"))
    /\ pc' = "footer_text"
    /\ UNCHANGED << gif, png, pilInstalled, cmds, imports, vhs_available,
                    rendererCalled, rendererReturned, img, font_i, loads,
                    title_font, text_font, small_font, y, ip, written,
                    crashedAt, exitCode >>

\* lines 116-117: the footer text at footer_y
FooterText ==
    /\ pc = "footer_text"
    /\ trace' = Append(trace, Drawn("text", 40, 40, footer_y,
                                    "small", "footer"))
    /\ pc' = "save"
    /\ UNCHANGED << gif, png, pilInstalled, cmds, imports, vhs_available,
                    rendererCalled, rendererReturned, img, font_i, loads,
                    title_font, text_font, small_font, y, ip, written,
                    crashedAt, exitCode >>

----------------------------------------------------------------------------
(* generate_steering_demo_image(): save and return, lines 120-122 *)

\* what img.save() leaves on disk: a PNG of the canvas
SavedFile(im) == [exists |-> TRUE, nonempty |-> TRUE, w |-> im.w, h |-> im.h]

\* lines 120-122: img.save(str(output_path), 'PNG'); return output_path
ImgSave ==
    /\ pc = "save"
    /\ png' = SavedFile(img)
    /\ written' = written \cup {"png"}
    /\ rendererReturned' = TRUE
    /\ pc' = "pngcheck"
    /\ UNCHANGED << gif, pilInstalled, cmds, imports, vhs_available,
                    rendererCalled, img, font_i, loads, title_font,
                    text_font, small_font, y, ip, trace, crashedAt,
                    exitCode >>

\* line 121 raising (disk write failure, permission error): not handled
ImgSaveRaises ==
    /\ pc = "save"
    /\ Raise("save")
    /\ UNCHANGED << gif, png, pilInstalled, cmds, imports, vhs_available,
                    rendererCalled, rendererReturned, img, font_i, loads,
                    title_font, text_font, small_font, y, ip, trace,
                    written >>

----------------------------------------------------------------------------
Next ==
    \/ MainCheckVhs
    \/ MainInvokeVhs
    \/ MainCheckGif
    \/ MainCallRenderer
    \/ ImportPIL
    \/ InstallPillow
    \/ ReimportPIL
    \/ ImageNew
    \/ LoadTitle
    \/ LoadText
    \/ LoadSmall
    \/ FontFallback
    \/ CursorInit
    \/ DrawText
    \/ DrawLine
    \/ AdvanceY
    \/ FooterLine
    \/ FooterText
    \/ ImgSave
    \/ ImgSaveRaises
    \/ MainCheckPng

Spec == Init /\ [][Next]_vars

----------------------------------------------------------------------------
(* Vocabulary of the properties *)

Terminal == pc \in {"done", "crashed"}

Issued(c) == { k \in 1..Len(cmds) : cmds[k] = c }

\* position of a command in the order the script can spawn them
Order(c) == CASE c = "which" -> 1 [] c = "vhs" -> 2 [] OTHER -> 3

ArtifactOnDisk == gif # "absent" \/ Exists(png)

\* the run is past the tool path with no steering-demo.gif on disk
ToolLeftNoGif ==
    /\ vhs_available
    /\ gif = "absent"
    /\ pc \notin {"start", "vhs", "gifcheck"}

\* font resolution (lines 36-54) is over
FontsResolved ==
    \/ pc \in {"cursor", "draw", "footer_line", "footer_text", "save",
               "pngcheck"}
    \/ pc = "done" /\ rendererReturned
    \/ pc = "crashed" /\ crashedAt = "save"

Cands == 1..Len(FontNames)

LoadedOk(i, size) ==
    \E k \in 1..Len(loads) : loads[k] = [cand |-> i, size |-> size, ok |-> TRUE]

LoadFailed(i, size) ==
    \E k \in 1..Len(loads) : loads[k] = [cand |-> i, size |-> size, ok |-> FALSE]

FullyLoaded(i) ==
    LoadedOk(i, 24) /\ LoadedOk(i, 16) /\ LoadedOk(i, 14)

Tried(i) == \E k \in 1..Len(loads) : loads[k].cand = i

FontsFrom(name) ==
    /\ title_font = [src |-> name, size |-> 24]
    /\ text_font = [src |-> name, size |-> 16]
    /\ small_font = [src |-> name, size |-> 14]

FontsDefault ==
    /\ title_font = [src |-> "default", size |-> 0]
    /\ text_font = [src |-> "default", size |-> 0]
    /\ small_font = [src |-> "default", size |-> 0]

\* indices of the body's drawing calls in the trace
BodyCalls ==
    { k \in 1..Len(trace) : trace[k].part = "body" /\ trace[k].kind # "adv" }

BodyDone ==
    \/ pc \in {"footer_line", "footer_text", "save", "pngcheck"}
    \/ pc = "done" /\ rendererReturned
    \/ pc = "crashed" /\ crashedAt = "save"

----------------------------------------------------------------------------
(* C1 (as amended): when the run has ended, the exit code is 0 exactly     *)
(* when main() verified the artifact of the path it took - the tool was    *)
(* reported present and steering-demo.gif exists after its invocation, or  *)
(* the renderer returned and steering-demo.png exists - and 1 otherwise;   *)
(* exit code 0 implies an artifact is on disk.                             *)
C1_ExitCodeIffVerifiedArtifact ==
    Terminal =>
        /\ exitCode \in {0, 1}
        /\ exitCode = 0 <=>
              \/ vhs_available /\ ~rendererCalled /\ gif # "absent"
              \/ rendererReturned /\ Exists(png)
        /\ exitCode = 0 => ArtifactOnDisk

\* a run that ended with exit code 1 while an earlier run's file is on disk
C1_Witness ==
    /\ pc = "crashed"
    /\ exitCode = 1
    /\ gif = "stale"
    /\ ~vhs_available

\* C1 as stated: exit code 0 exactly when an artifact exists on disk
C1_Original ==
    Terminal =>
        /\ exitCode \in {0, 1}
        /\ exitCode = 0 <=> ArtifactOnDisk

(* C2 as stated: the fallback renderer is invoked if and only if the       *)
(* availability check reported the tool absent, and the tool is invoked    *)
(* if and only if it was reported present.                                 *)
C2_FallbackIffToolAbsent ==
    /\ rendererCalled => ~vhs_available
    /\ Issued("vhs") # {} => vhs_available
    /\ Terminal => (rendererCalled <=> ~vhs_available)
    /\ Terminal => (Issued("vhs") # {} <=> vhs_available)

C4_SavedImageIs1280x720 ==
    /\ rendererReturned =>
          png = [exists |-> TRUE, nonempty |-> TRUE, w |-> 1280, h |-> 720]
    /\ img # NoImg => img = [w |-> 1280, h |-> 720]

\* the renderer returned after drawing with the default font
C4_Witness ==
    /\ rendererReturned
    /\ FontsDefault
    /\ "png" \in written
    /\ pc = "done"

(* C5: font resolution is a first-match-wins search in list order: once    *)
(* it is over, the fonts are those of the first candidate whose three      *)
(* loads succeeded and no later candidate was tried; if no candidate       *)
(* loaded, every candidate was tried and the default font is used, and     *)
(* the renderer goes on to draw.                                           *)
C5_FirstMatchWins ==
    /\ \A k, l \in 1..Len(loads) : k < l => loads[k].cand <= loads[l].cand
    /\ pc = "font_else" => \A i \in Cands : Tried(i) /\ ~FullyLoaded(i)
    /\ FontsResolved =>
          IF \E i \in Cands : FullyLoaded(i)
            THEN \E m \in Cands :
                    /\ FullyLoaded(m)
                    /\ \A j \in Cands : j < m => Tried(j) /\ ~FullyLoaded(j)
                    /\ \A j \in Cands : j > m => ~Tried(j)
                    /\ FontsFrom(FontNames[m])
            ELSE /\ \A i \in Cands : Tried(i)
                 /\ FontsDefault
                 /\ crashedAt \in {"none", "save"}

\* no candidate loaded and the whole picture was drawn and saved
C5_Witness ==
    /\ \A i \in Cands : Tried(i) /\ ~FullyLoaded(i)
    /\ FontsDefault
    /\ Len(trace) = Len(Body) + 2
    /\ rendererReturned

(* C6: when the first import fails the install command is issued exactly   *)
(* once, whatever its result the import is retried exactly once, and a     *)
(* failed second import ends the process: no canvas, nothing drawn, no     *)
(* file written, exit code not 0.  When the first import succeeds the      *)
(* install command is never issued.                                        *)
C6_InstallOnceThenFail ==
    /\ Len(imports) <= 2
    /\ Cardinality(Issued("pip")) <= 1
    /\ Len(imports) >= 1 /\ imports[1] =>
          Issued("pip") = {} /\ Len(imports) = 1
    /\ Len(imports) >= 1 /\ ~imports[1] /\ pc # "install" =>
          Cardinality(Issued("pip")) = 1
    /\ Issued("pip") # {} => pc = "reimport" \/ Len(imports) = 2
    /\ Len(imports) = 2 /\ ~imports[2] =>
          /\ pc = "crashed"
          /\ crashedAt = "import"
          /\ img = NoImg
          /\ trace = << >>
          /\ "png" \notin written
          /\ exitCode = 1

\* both imports failed
C6_Witness ==
    /\ imports = << FALSE, FALSE >>
    /\ Cardinality(Issued("pip")) = 1
    /\ pc = "crashed"

(* C7 as stated: a run that completes has written exactly one file, the    *)
(* png when the renderer ran and the gif otherwise.                        *)
C7_ExactlyOneFileWritten ==
    pc = "done" =>
        /\ Cardinality(written) = 1
        /\ rendererCalled => written = {"png"}
        /\ ~rendererCalled => written = {"gif"}

(* C8: no external command is spawned twice; they are spawned in the       *)
(* order which, vhs, pip; and vhs is spawned only after the availability   *)
(* check succeeded.                                                        *)
C8_NoRetry ==
    /\ \A k, l \in 1..Len(cmds) : k < l => Order(cmds[k]) < Order(cmds[l])
    /\ \A c \in {"which", "vhs", "pip"} : Cardinality(Issued(c)) <= 1
    /\ Issued("vhs") # {} => vhs_available /\ cmds[1] = "which"
    /\ pc # "start" => cmds[1] = "which"

\* all three commands ran and the last two failed
C8_Witness ==
    /\ cmds = << "which", "vhs", "pip" >>
    /\ gif = "absent"
    /\ crashedAt = "import"

(* C9 (as amended): the cursor y starts at 40 and is only ever advanced    *)
(* by fixed positive increments; every body drawing call is anchored at y  *)
(* or at y + 25, inside the canvas and strictly above the footer           *)
(* separator at 670; no two body drawing calls share an anchor point; the  *)
(* last body line is at y = 595.  (Not every call is followed by an        *)
(* advance: the four menu items share one y, and the warning line is       *)
(* drawn at y + 25.)                                                       *)
C9_SequentialCursor ==
    /\ pc = "draw" => y >= 40
    /\ Len(trace) >= 1 => trace[1].cur = 40
    /\ \A k \in 1..Len(trace) :
          trace[k].kind = "adv" => trace[k].n > 0 /\ trace[k].y = trace[k].cur + trace[k].n
    /\ \A k, l \in 1..Len(trace) :
          k < l /\ trace[k].part = "body" /\ trace[l].part = "body" =>
              trace[k].cur <= trace[l].cur
    /\ \A k \in 1..Len(trace) :
          k > 1 /\ trace[k].part = "body" => trace[k].cur = trace[k-1].y \/ trace[k].cur = trace[k-1].cur
    /\ \A k \in BodyCalls :
          /\ trace[k].y \in {trace[k].cur, trace[k].cur + 25}
          /\ 0 <= trace[k].x /\ trace[k].x < 1280
          /\ 0 <= trace[k].x2 /\ trace[k].x2 < 1280
          /\ 0 <= trace[k].y /\ trace[k].y < 670
    /\ \A k, l \in BodyCalls :
          k # l => << trace[k].x, trace[k].y >> # << trace[l].x, trace[l].y >>
    /\ BodyDone =>
          /\ y = 595
          /\ \E k \in BodyCalls :
                /\ trace[k].y = 595
                /\ \A l \in BodyCalls : l <= k

\* the body is drawn: the menu row shares a y, the warning line is offset
C9_Witness ==
    /\ pc = "footer_line"
    /\ y = 595
    /\ \E k, l \in BodyCalls : k # l /\ trace[k].y = 345 /\ trace[l].y = 345
    /\ \E k \in BodyCalls : trace[k].cur = 255 /\ trace[k].y = 280

\* C9 as stated: every body drawing call is at y and is followed by an
\* advance of y before the next drawing call
C9_Original ==
    /\ Len(trace) >= 1 => trace[1].cur = 40
    /\ \A k \in BodyCalls :
          /\ trace[k].y = trace[k].cur
          /\ 0 <= trace[k].y /\ trace[k].y < 670
    /\ \A k, l \in BodyCalls : k < l => trace[k].y < trace[l].y
    /\ BodyDone => y = 595

(* C10: once font resolution is over, title_font, text_font and            *)
(* small_font are all assigned and come from one source: one candidate at  *)
(* sizes 24, 16, 14, or the default font for all three; every font a       *)
(* drawing call receives is one of these.                                  *)
C10_FontsFromOneSource ==
    /\ FontsResolved =>
          /\ title_font # Unset /\ text_font # Unset /\ small_font # Unset
          /\ \/ \E i \in Cands : FontsFrom(FontNames[i])
             \/ FontsDefault
    /\ \A k \in 1..Len(trace) :
          trace[k].kind = "text" => trace[k].font.src = title_font.src

\* a candidate loaded only partly, and drawing has started
C10_Witness ==
    /\ pc = "draw"
    /\ LoadedOk(1, 24)
    /\ LoadFailed(1, 16)
    /\ Len(trace) >= 1

====
